---------------------------- MODULE Spec2Model ----------------------------
(***************************************************************************)
(* Digital Complaint Management System: complaint lifecycle, auto-approval *)
(* gate, SLA breach monitor and escalation ladder, modelled from the       *)
(* backend services, the webhook routes and the database schema.           *)
(*                                                                         *)
(* Time is counted in whole hours.  Confidence values are kept in          *)
(* thousandths as the classifier returns them and in hundredths once       *)
(* normalised (DECIMAL(3,2)); priority scores are kept in hundredths.      *)
(***************************************************************************)
EXTENDS Integers, Sequences, FiniteSets, Bags, TLC

(***************************************************************************)
(* Bounds of the model                                                     *)
(***************************************************************************)
MaxTime == 6
MaxSubmitTime == 0
MaxLog == 4
MaxEsc == 5

Complaints == {"c1", "c2"}

\* the systems with one complaint submit this one
OneComplaint == {"c1"}
\* invocations of checkSLABreaches: the scheduled one and the one an admin starts
Sweeps == {"s1", "s2"}

ScheduledSweep == {"s1"}

(***************************************************************************)
(* Values                                                                  *)
(***************************************************************************)
NULL == "null"
NoTime == -1
NoScore == -1

Statuses ==
  {"submitted", "pending_review", "approved", "rejected", "assigned",
   "in_progress", "resolved", "closed", "escalated"}

Urgencies == {"normal", "high", "critical"}

\* the ladder with level_2 and level_3 exchanged
ESCALATION_ORDER_Exchanged == <<"level_1", "level_3", "level_2", "executive">>

ESCALATION_ORDER == <<"level_1", "level_2", "level_3", "executive">>

ConfidenceThreshold == 75
WarningHoursBefore == 6

FailedNote == "Classification failed - requires manual review"
ClassifiedNote == "Classification completed"

VARIABLES
  complaints,    \* table complaints: id -> row
  statusLogs,    \* table complaint_status_logs, per complaint, in insertion order
  escalations,   \* table escalations, per complaint, in insertion order
  now,           \* wall clock, in hours
  gate,          \* background classification task of each complaint
  req,           \* API calls in flight between their read and their write
  sweep,         \* checkSLABreaches invocations in flight
  ret,           \* outcome of the most recently completed API call
  changes,       \* history: number of changes of the stored status, per complaint
  call           \* a call of one of the calculators: arguments and result

vars == <<complaints, statusLogs, escalations, now, gate, req, sweep, ret, changes,
         call>>

(***************************************************************************)
(* Departments table (seed data) and its lookup                            *)
(***************************************************************************)
DepartmentCodes == {"SAFETY", "OTHER"}

Departments ==
  [code \in DepartmentCodes |->
     IF code = "SAFETY" THEN [id |-> "d_safety", sla_hours |-> 12]
                        ELSE [id |-> "d_other", sla_hours |-> 120]]

NoDepartment == [id |-> NULL, sla_hours |-> 0]

\* found = FALSE is the branch `error || !data` of the lookup
getDepartmentByCode(code, found) ==
  IF found /\ code \in DepartmentCodes THEN Departments[code] ELSE NoDepartment

(***************************************************************************)
(* Classifier responses and their parsing                                  *)
(***************************************************************************)
MISSING == "undefined"

JsonResponse(dept, urg, ckind, conf) ==
  [kind |-> "json", department_code |-> dept, urgency |-> urg,
   conf_kind |-> ckind, confidence |-> conf]

NoJson(k) ==
  [kind |-> k, department_code |-> MISSING, urgency |-> MISSING,
   conf_kind |-> "missing", confidence |-> 0]

\* what the model API may hand back: a rejected call, an empty text, text
\* that is not JSON, JSON without a required field, and JSON with valid,
\* unknown or out-of-range field values
ClassifierResponses ==
  { NoJson("throw"), NoJson("empty"), NoJson("garbage"),
    JsonResponse("SAFETY", "critical", "missing", 0),
    JsonResponse("SAFETY", "critical", "num", 800),
    JsonResponse("SAFETY", "normal", "num", 600),
    JsonResponse("SAFETY", "high", "num", 750),
    JsonResponse("SAFETY", "normal", "num", 746),
    JsonResponse("SAFETY", "normal", "num", 1200),
    JsonResponse("PARKS", "URGENT", "nan", 0) }

AIServiceError == [ok |-> FALSE, department_code |-> NULL, urgency |-> NULL,
                   confidence |-> 0]

\* Math.round(confidence * 100) / 100, from thousandths to hundredths
RoundConfidence(raw) == (raw + 5) \div 10

\* a missing confidence taken as an invalid one
parseAIResponseLenient(r) ==
  IF r.kind # "json" THEN AIServiceError
  ELSE IF r.department_code = MISSING \/ r.urgency = MISSING THEN AIServiceError
  ELSE
    LET departmentCode ==
          IF r.department_code \in
               {"WATER", "ELECTRICITY", "SANITATION", "SAFETY", "ROADS", "OTHER"}
          THEN r.department_code ELSE "OTHER"
        urgency == IF r.urgency \in Urgencies THEN r.urgency ELSE "normal"
        confidence ==
          IF r.conf_kind # "num" \/ r.confidence < 0 \/ r.confidence > 1000
          THEN 500 ELSE r.confidence
    IN [ok |-> TRUE, department_code |-> departmentCode, urgency |-> urgency,
        confidence |-> RoundConfidence(confidence)]

parseAIResponse(r) ==
  IF r.kind # "json" THEN AIServiceError
  ELSE IF r.department_code = MISSING \/ r.urgency = MISSING
          \/ r.conf_kind = "missing" THEN AIServiceError
  ELSE
    LET departmentCode ==
          IF r.department_code \in
               {"WATER", "ELECTRICITY", "SANITATION", "SAFETY", "ROADS", "OTHER"}
          THEN r.department_code ELSE "OTHER"
        urgency == IF r.urgency \in Urgencies THEN r.urgency ELSE "normal"
        confidence ==
          IF r.conf_kind = "nan" \/ r.confidence < 0 \/ r.confidence > 1000
          THEN 500 ELSE r.confidence
    IN [ok |-> TRUE, department_code |-> departmentCode, urgency |-> urgency,
        confidence |-> RoundConfidence(confidence)]

\* the model call rejects, or returns no text, or its text is parsed
classifyComplaint(r) ==
  IF r.kind \in {"throw", "empty"} THEN AIServiceError ELSE parseAIResponse(r)

(***************************************************************************)
(* Priority score and SLA deadline                                         *)
(***************************************************************************)
Min(a, b) == IF a < b THEN a ELSE b

\* URGENCY_VALUES, in tenths
UrgencyValue10(u) == IF u = "critical" THEN 10 ELSE IF u = "high" THEN 7 ELSE 3

\* score in hundredths, rounded half up:
\* 40 * urgencyValue + 35 * min(hoursOpen / 168, 1) + 25 * locationValue
calculatePriorityScore(urgency, createdAt, isCriticalArea, clock) ==
  LET hoursOpen == clock - createdAt
      capped == Min(hoursOpen, 168)
      fixedPart == 40 * UrgencyValue10(urgency) * 10
                   + (IF isCriticalArea THEN 2500 ELSE 0)
  IN fixedPart + ((2 * 3500 * capped + 168) \div (2 * 168))

\* urgencyMultipliers, in hundredths
UrgencyMultiplier100(u) ==
  IF u = "critical" THEN 25 ELSE IF u = "high" THEN 50 ELSE 100

\* slaDeadline = new Date(); setHours(getHours() + sla_hours * multiplier):
\* setHours keeps the integer part of its argument
GateDeadline(department, urgency, clock) ==
  IF department.id = NULL THEN NoTime
  ELSE clock + ((department.sla_hours * UrgencyMultiplier100(urgency)) \div 100)

\* auto-approval only above the threshold
isAutoApprovedStrict(confidence) == confidence > ConfidenceThreshold

isAutoApproved(confidence) == confidence >= ConfidenceThreshold

classifyAndProcessComplaint(r, found, crit, clock) ==
  LET classification == classifyComplaint(r)
      department == getDepartmentByCode(classification.department_code, found)
  IN [ok |-> classification.ok,
      classification |-> classification,
      departmentId |-> department.id,
      isCriticalArea |-> crit,
      isAutoApproved |-> isAutoApproved(classification.confidence),
      slaDeadline |-> IF classification.ok
                      THEN GateDeadline(department, classification.urgency, clock)
                      ELSE NoTime]

(***************************************************************************)
(* Rows                                                                    *)
(***************************************************************************)
NewComplaint(clock) ==
  [status |-> "submitted", urgency |-> "normal", department_id |-> NULL,
   ai_confidence |-> NoScore, ai_reasoning |-> NULL,
   is_auto_approved |-> FALSE, priority_score |-> 0,
   is_critical_area |-> FALSE, sla_deadline |-> NoTime,
   sla_breached |-> FALSE, sla_breach_notified |-> FALSE,
   created_at |-> clock, approved_at |-> NoTime, resolved_at |-> NoTime,
   closed_at |-> NoTime]

\* trigger log_complaint_status_change: AFTER UPDATE, one row when the status
\* of the row changed
log_status_change(log, old, new) ==
  IF old # new
  THEN Append(log, [old_status |-> old, new_status |-> new,
                    changed_by |-> NULL, metadata |-> TRUE])
  ELSE log

CountChange(n, old, new) == IF old # new THEN n + 1 ELSE n

NoTask == [pc |-> "none", resp |-> NoJson("none")]

NoCounts == [checked |-> 0, warnings |-> 0, breaches |-> 0, escalations |-> 0]

IdleSweep == [pc |-> "idle", snap |-> << >>, todo |-> {}, now |-> 0,
              counts |-> NoCounts]

NoRet == [op |-> "none", res |-> "none", c |-> NULL, to |-> NULL,
          counts |-> NoCounts, undelivered |-> FALSE]

\* a response: a validation error names the rejected target status;
\* undelivered tells that a webhook of the call was logged as failed
Return(op, res, c, to) ==
  [op |-> op, res |-> res, c |-> c, to |-> to, counts |-> NoCounts,
   undelivered |-> FALSE]

\* the response of checkSLABreaches
ReturnCounts(counts) ==
  [op |-> "checkSLABreaches", res |-> "ok", c |-> NULL, to |-> NULL,
   counts |-> counts, undelivered |-> FALSE]

Created == DOMAIN complaints

\* no calculator is called
NoCall == [fn |-> "none", urgency |-> NULL, baseSLAHours |-> 0,
           createdAt |-> 0, isCriticalArea |-> FALSE, clock |-> 0,
           result |-> 0, done |-> FALSE]

Init ==
  /\ complaints = << >>
  /\ statusLogs = [c \in Complaints |-> << >>]
  /\ escalations = [c \in Complaints |-> << >>]
  /\ now = 0
  /\ gate = [c \in Complaints |-> NoTask]
  /\ req = EmptyBag
  /\ sweep = [s \in Sweeps |-> IdleSweep]
  /\ ret = NoRet
  /\ changes = [c \in Complaints |-> 0]
  /\ call = NoCall

(***************************************************************************)
(* createComplaint: insert the row, start the background classification,   *)
(* return the row                                                          *)
(***************************************************************************)
createComplaint(c) ==
  /\ c \notin Created
  /\ now <= MaxSubmitTime
  /\ complaints' = complaints @@ (c :> NewComplaint(now))
  /\ gate' = [gate EXCEPT ![c] = [pc |-> "running", resp |-> NoJson("none")]]
  /\ ret' = Return("createComplaint", "ok", c, NULL)
  /\ UNCHANGED <<statusLogs, escalations, now, req, sweep, changes, call>>

(***************************************************************************)
(* Background classification (Auto-Approval Gate)                          *)
(***************************************************************************)
CanLog(c) == Len(statusLogs[c]) + 2 <= MaxLog

\* the model API call of classifyComplaint completes with response r
ClassifierReturns(c, r) ==
  /\ gate[c].pc = "running"
  /\ gate' = [gate EXCEPT ![c] = [pc |-> "responded", resp |-> r]]
  /\ UNCHANGED <<complaints, statusLogs, escalations, now, req, sweep, ret, changes,
                 call>>

\* the row written by the try block of processComplaintClassification
ClassifiedRow(row, result, clock) ==
  [row EXCEPT
     !.department_id = result.departmentId,
     !.urgency = result.classification.urgency,
     !.ai_confidence = result.classification.confidence,
     !.ai_reasoning = ClassifiedNote,
     !.is_auto_approved = result.isAutoApproved,
     !.status = IF result.isAutoApproved THEN "approved" ELSE "pending_review",
     !.priority_score =
        calculatePriorityScore(result.classification.urgency, row.created_at,
                               result.isCriticalArea, clock),
     !.is_critical_area = result.isCriticalArea,
     \* sla_deadline: result.slaDeadline?.toISOString() is left out of the
     \* update when slaDeadline is null
     !.sla_deadline = IF result.slaDeadline = NoTime THEN row.sla_deadline
                      ELSE result.slaDeadline,
     !.approved_at = IF result.isAutoApproved THEN clock ELSE NoTime]

\* a catch block that only logs the failure
FailedRowLeftAsIs(row) == row

\* the row written by the catch block of processComplaintClassification
FailedRow(row) ==
  [row EXCEPT !.status = "pending_review", !.ai_reasoning = FailedNote]

processComplaintClassification(c, found, crit) ==
  /\ gate[c].pc = "responded"
  /\ CanLog(c)
  /\   LET result == classifyAndProcessComplaint(gate[c].resp, found, crit, now)
           row == IF result.ok THEN ClassifiedRow(complaints[c], result, now)
                  ELSE FailedRow(complaints[c])
       IN /\ complaints' = [complaints EXCEPT ![c] = row]
          /\ statusLogs' = [statusLogs EXCEPT ![c] =
               log_status_change(@, complaints[c].status, row.status)]
          /\ changes' = [changes EXCEPT ![c] =
               CountChange(@, complaints[c].status, row.status)]
  /\ gate' = [gate EXCEPT ![c] = [pc |-> "done", resp |-> NoJson("none")]]
  /\ UNCHANGED <<escalations, now, req, sweep, ret, call>>

(***************************************************************************)
(* reviewComplaint                                                         *)
(***************************************************************************)
ReviewTarget(approved) == IF approved THEN "approved" ELSE "rejected"

\* getComplaintById and the status check
reviewComplaintRead(c, approved, departmentId, urgency, cap) ==
  /\ BagCardinality(req) < cap
  /\ c \in Created
  /\ IF complaints[c].status # "pending_review"
     THEN /\ ret' = Return("reviewComplaint", "ValidationError", c,
                          ReviewTarget(approved))
          /\ UNCHANGED req
     ELSE /\ req' = req (+) SetToBag({
                 [op |-> "reviewComplaint", c |-> c,
                  from |-> complaints[c].status, to |-> ReviewTarget(approved),
                  department_id |-> departmentId, urgency |-> urgency]})
          /\ UNCHANGED ret
  /\ UNCHANGED <<complaints, statusLogs, escalations, now, gate, sweep, changes,
                 call>>

\* the overrides written also when the complaint is rejected
ReviewedRowAlwaysOverride(row, r, clock) ==
  [row EXCEPT
     !.status = r.to,
     !.approved_at = IF r.to = "approved" THEN clock ELSE @,
     !.is_auto_approved = IF r.to = "approved" THEN FALSE ELSE @,
     !.department_id = IF r.department_id # NULL THEN r.department_id ELSE @,
     !.urgency = IF r.urgency # NULL THEN r.urgency ELSE @]

\* updateData of reviewComplaint applied to the stored row
ReviewedRow(row, r, clock) ==
  IF r.to = "approved"
  THEN [row EXCEPT
          !.status = "approved",
          !.approved_at = clock,
          !.is_auto_approved = FALSE,
          !.department_id = IF r.department_id # NULL THEN r.department_id ELSE @,
          !.urgency = IF r.urgency # NULL THEN r.urgency ELSE @]
  ELSE [row EXCEPT !.status = "rejected"]

\* the deadline computed again when a review overrides the urgency
reviewComplaintWriteRecompute(r) ==
  /\ r.op = "reviewComplaint"
  /\ CanLog(r.c)
  /\ LET c == r.c
         reviewed == ReviewedRow(complaints[c], r, now)
         row == IF r.to = "approved" /\ r.urgency # NULL
                THEN [reviewed EXCEPT !.sla_deadline =
                        now + ((120 * UrgencyMultiplier100(r.urgency)) \div 100)]
                ELSE reviewed
     IN /\ complaints' = [complaints EXCEPT ![c] = row]
        /\ statusLogs' = [statusLogs EXCEPT ![c] =
             log_status_change(@, complaints[c].status, row.status)]
        /\ changes' = [changes EXCEPT ![c] =
             CountChange(@, complaints[c].status, row.status)]
  /\ ret' = Return("reviewComplaint", "ok", r.c, NULL)
  /\ req' = req (-) SetToBag({r})
  /\ UNCHANGED <<escalations, now, gate, sweep, call>>

reviewComplaintWrite(r) ==
  /\ r.op = "reviewComplaint"
  /\ CanLog(r.c)
  /\ LET c == r.c
         row == ReviewedRow(complaints[c], r, now)
     IN /\ complaints' = [complaints EXCEPT ![c] = row]
        /\ statusLogs' = [statusLogs EXCEPT ![c] =
             log_status_change(@, complaints[c].status, row.status)]
        /\ changes' = [changes EXCEPT ![c] =
             CountChange(@, complaints[c].status, row.status)]
  /\ ret' = Return("reviewComplaint", "ok", r.c, NULL)
  /\ req' = req (-) SetToBag({r})
  /\ UNCHANGED <<escalations, now, gate, sweep, call>>

(***************************************************************************)
(* updateComplaintStatus                                                   *)
(***************************************************************************)
\* the table with the reopen edge resolved -> in_progress added
validTransitionsReopen(from) ==
  CASE from = "submitted" -> {"pending_review", "approved"}
    [] from = "pending_review" -> {"approved", "rejected"}
    [] from = "approved" -> {"assigned"}
    [] from = "rejected" -> {}
    [] from = "assigned" -> {"in_progress"}
    [] from = "in_progress" -> {"resolved", "escalated"}
    [] from = "resolved" -> {"closed", "in_progress"}
    [] from = "closed" -> {}
    [] from = "escalated" -> {"in_progress", "resolved"}

validTransitions(from) ==
  CASE from = "submitted" -> {"pending_review", "approved"}
    [] from = "pending_review" -> {"approved", "rejected"}
    [] from = "approved" -> {"assigned"}
    [] from = "rejected" -> {}
    [] from = "assigned" -> {"in_progress"}
    [] from = "in_progress" -> {"resolved", "escalated"}
    [] from = "resolved" -> {"closed"}
    [] from = "closed" -> {}
    [] from = "escalated" -> {"in_progress", "resolved"}

\* getComplaintById and the transition check
updateComplaintStatusRead(c, status, cap) ==
  /\ BagCardinality(req) < cap
  /\ c \in Created
  /\ IF status \notin validTransitions(complaints[c].status)
     THEN /\ ret' = Return("updateComplaintStatus", "ValidationError", c, status)
          /\ UNCHANGED req
     ELSE /\ req' = req (+) SetToBag({
                 [op |-> "updateComplaintStatus", c |-> c,
                  from |-> complaints[c].status, to |-> status,
                  department_id |-> NULL, urgency |-> NULL]})
          /\ UNCHANGED ret
  /\ UNCHANGED <<complaints, statusLogs, escalations, now, gate, sweep, changes,
                 call>>

\* updateData of updateComplaintStatus applied to the stored row
StatusUpdatedRow(row, status, clock) ==
  [row EXCEPT
     !.status = status,
     !.resolved_at = IF status = "resolved" THEN clock ELSE @,
     !.closed_at = IF status = "closed" THEN clock ELSE @]

\* the update (and its trigger) followed by the insert into
\* complaint_status_logs
updateComplaintStatusWrite(r) ==
  /\ r.op = "updateComplaintStatus"
  /\ CanLog(r.c)
  /\ LET c == r.c
         row == StatusUpdatedRow(complaints[c], r.to, now)
     IN /\ complaints' = [complaints EXCEPT ![c] = row]
        /\ statusLogs' = [statusLogs EXCEPT ![c] =
             Append(log_status_change(@, complaints[c].status, row.status),
                    [old_status |-> r.from, new_status |-> r.to,
                     changed_by |-> "user", metadata |-> FALSE])]
        /\ changes' = [changes EXCEPT ![c] =
             CountChange(@, complaints[c].status, row.status)]
  /\ ret' = Return("updateComplaintStatus", "ok", r.c, NULL)
  /\ req' = req (-) SetToBag({r})
  /\ UNCHANGED <<escalations, now, gate, sweep, call>>

(***************************************************************************)
(* assignComplaint, also reached from the complaint_assigned webhook event *)
(***************************************************************************)
assignComplaint(c) ==
  /\ c \in Created
  /\ CanLog(c)
  /\ complaints' = [complaints EXCEPT ![c].status = "assigned"]
  /\ statusLogs' = [statusLogs EXCEPT ![c] =
       log_status_change(@, complaints[c].status, "assigned")]
  /\ changes' = [changes EXCEPT ![c] =
       CountChange(@, complaints[c].status, "assigned")]
  /\ ret' = Return("assignComplaint", "ok", c, NULL)
  /\ UNCHANGED <<escalations, now, gate, req, sweep, call>>

(***************************************************************************)
(* n8n webhook, event status_update with updated_by = 'system'             *)
(***************************************************************************)
webhookStatusUpdate(c, status) ==
  /\ c \in Created
  /\ CanLog(c)
  /\ complaints' = [complaints EXCEPT ![c].status = status]
  /\ statusLogs' = [statusLogs EXCEPT ![c] =
       Append(log_status_change(@, complaints[c].status, status),
              [old_status |-> NULL, new_status |-> status,
               changed_by |-> NULL, metadata |-> FALSE])]
  /\ changes' = [changes EXCEPT ![c] =
       CountChange(@, complaints[c].status, status)]
  /\ ret' = Return("webhook", "ok", c, NULL)
  /\ UNCHANGED <<escalations, now, gate, req, sweep, call>>

(***************************************************************************)
(* POST /complaints/:id/reclassify                                         *)
(***************************************************************************)
ReclassifiedRow(row, result) ==
  [row EXCEPT
     !.department_id = result.departmentId,
     !.urgency = result.classification.urgency,
     !.ai_confidence = result.classification.confidence,
     !.ai_reasoning = ClassifiedNote,
     !.is_critical_area = result.isCriticalArea]

reclassify(c, r, found, crit) ==
  /\ c \in Created
  /\   LET result == classifyAndProcessComplaint(r, found, crit, now)
       IN IF result.ok
          THEN /\ complaints' = [complaints EXCEPT ![c] = ReclassifiedRow(@, result)]
               /\ ret' = Return("reclassify", "ok", c, NULL)
          ELSE /\ ret' = Return("reclassify", "AIServiceError", c, NULL)
               /\ UNCHANGED complaints
  /\ UNCHANGED <<statusLogs, escalations, now, gate, req, sweep, changes, call>>

(***************************************************************************)
(* SLA breach monitor and escalation ladder                                *)
(***************************************************************************)
\* the candidate query of checkSLABreaches, over a complaints table cs
candidateQuery(cs) ==
  {c \in DOMAIN cs :
     /\ cs[c].status \notin {"resolved", "closed", "rejected"}
     /\ cs[c].sla_deadline # NoTime}

\* the columns the query selects
selected(row) ==
  [sla_deadline |-> row.sla_deadline,
   sla_breached |-> row.sla_breached,
   sla_breach_notified |-> row.sla_breach_notified,
   status |-> row.status]

Candidates == candidateQuery(complaints)

Snapshot(c) == selected(complaints[c])

\* the query and `now = new Date()`; a sweep without candidates returns
checkSLABreachesStart(s) ==
  /\ sweep[s].pc = "idle"
  /\ sweep' = [sweep EXCEPT ![s] =
       [pc |-> IF Candidates = {} THEN "idle" ELSE "loop",
        snap |-> [c \in Candidates |-> Snapshot(c)],
        todo |-> Candidates,
        now |-> IF Candidates = {} THEN 0 ELSE now,
        counts |-> IF Candidates = {} THEN NoCounts
                   ELSE [NoCounts EXCEPT !.checked = Cardinality(Candidates)]]]
  /\ ret' = IF Candidates = {} THEN ReturnCounts(NoCounts) ELSE ret
  /\ UNCHANGED <<complaints, statusLogs, escalations, now, gate, req, changes,
                 call>>

LevelIndex(level) == CHOOSE i \in 1..Len(ESCALATION_ORDER) : ESCALATION_ORDER[i] = level

escalationThresholds(level) ==
  CASE level = "level_1" -> 24
    [] level = "level_2" -> 48
    [] level = "level_3" -> 72

MinHoursBetweenEscalations == 12

EscalationRow(level, previous, clock) ==
  [escalation_level |-> level, previous_level |-> previous, created_at |-> clock,
   acknowledged |-> FALSE, acknowledged_at |-> NoTime, acknowledged_by |-> NULL]

\* a ladder that an acknowledgement of the latest row stops
shouldEscalateUnlessAcknowledged(rows, hoursOverdue, clock) ==
  IF rows = << >> THEN FALSE
  ELSE LET latestEscalation == rows[Len(rows)]
           currentLevel == latestEscalation.escalation_level
       IN IF latestEscalation.acknowledged THEN FALSE
          ELSE IF LevelIndex(currentLevel) >= Len(ESCALATION_ORDER) THEN FALSE
          ELSE IF hoursOverdue < escalationThresholds(currentLevel) THEN FALSE
          ELSE IF clock - latestEscalation.created_at < MinHoursBetweenEscalations
               THEN FALSE
          ELSE TRUE

\* the ladder without its cool-down
shouldEscalateNoCoolDown(rows, hoursOverdue, clock) ==
  IF rows = << >> THEN FALSE
  ELSE LET latestEscalation == rows[Len(rows)]
           currentLevel == latestEscalation.escalation_level
       IN IF LevelIndex(currentLevel) >= Len(ESCALATION_ORDER) THEN FALSE
          ELSE IF hoursOverdue < escalationThresholds(currentLevel) THEN FALSE
          ELSE TRUE

\* a ladder that does not look at the hours overdue
shouldEscalateAnyOverdue(rows, hoursOverdue, clock) ==
  IF rows = << >> THEN FALSE
  ELSE LET latestEscalation == rows[Len(rows)]
           currentLevel == latestEscalation.escalation_level
       IN IF LevelIndex(currentLevel) >= Len(ESCALATION_ORDER) THEN FALSE
          ELSE IF clock - latestEscalation.created_at < MinHoursBetweenEscalations
               THEN FALSE
          ELSE TRUE

\* checkEscalation: TRUE when the complaint is to be moved to the next level
shouldEscalate(rows, hoursOverdue, clock) ==
  IF rows = << >> THEN FALSE
  ELSE LET latestEscalation == rows[Len(rows)]
           currentLevel == latestEscalation.escalation_level
       IN IF LevelIndex(currentLevel) >= Len(ESCALATION_ORDER) THEN FALSE
          ELSE IF hoursOverdue < escalationThresholds(currentLevel) THEN FALSE
          ELSE IF clock - latestEscalation.created_at < MinHoursBetweenEscalations
               THEN FALSE
          ELSE TRUE

\* escalateComplaint: the row of the next level
escalateComplaint(rows, clock) ==
  LET currentLevel == rows[Len(rows)].escalation_level
  IN Append(rows, EscalationRow(ESCALATION_ORDER[LevelIndex(currentLevel) + 1],
                                currentLevel, clock))

Abs(x) == IF x < 0 THEN -x ELSE x

\* a warning that does not mark the complaint as notified
WarnedRowUnmarked(row) == row

\* the update of handleSLAWarning
WarnedRow(row) == [row EXCEPT !.sla_breach_notified = TRUE]

\* a breach that does not mark the complaint as notified
BreachedRowUnnotified(row) ==
  [row EXCEPT !.sla_breached = TRUE, !.status = "escalated"]

\* the update of handleSLABreach
BreachedRow(row) ==
  [row EXCEPT !.sla_breached = TRUE, !.sla_breach_notified = TRUE,
              !.status = "escalated"]

\* outcomes of a write of the store: done, refused with an error result (which
\* the handlers do not inspect), or a rejected call (which their catch logs)
WriteOutcomes == {"ok", "error", "throw"}

\* the body of the loop of checkSLABreaches for one candidate: `complaint` is
\* the row as the query read it, `row` and `rows` are the stored complaint and
\* its escalations, sweepNow is the `now` of the sweep and clock the time of
\* the writes; `update` is the outcome of the update of the complaint and
\* `insert` that of the insert of an Escalation row.  The counters move
\* whatever the outcome of the writes.
loopBodyWith(complaint, row, rows, sweepNow, clock, update, insert) ==
  LET timeUntilDeadline == complaint.sla_deadline - sweepNow
      isBreach == timeUntilDeadline < 0 /\ ~complaint.sla_breached
      isWarning == /\ ~isBreach
                   /\ timeUntilDeadline > 0
                   /\ timeUntilDeadline < WarningHoursBefore
                   /\ ~complaint.sla_breach_notified
      rows1 == IF isBreach /\ update # "throw" /\ insert = "ok"
               THEN Append(rows, EscalationRow("level_1", NULL, clock))
               ELSE rows
      ladder == complaint.sla_breached /\ complaint.status # "escalated"
      escalate == ladder /\ shouldEscalate(rows1, Abs(timeUntilDeadline), clock)
  IN [row |-> IF isBreach /\ update = "ok" THEN BreachedRow(row)
              ELSE IF isWarning /\ update = "ok" THEN WarnedRow(row)
                   ELSE row,
      rows |-> IF escalate /\ insert = "ok"
               THEN escalateComplaint(rows1, clock) ELSE rows1,
      isBreach |-> isBreach, isWarning |-> isWarning, escalate |-> escalate]

\* the body of the loop when every write succeeds
loopBody(complaint, row, rows, sweepNow, clock) ==
  loopBodyWith(complaint, row, rows, sweepNow, clock, "ok", "ok")

\* one iteration of the loop of checkSLABreaches, for candidate c; the sweep
\* returns after its last candidate
checkSLABreachesItem(s, c) ==
  /\ sweep[s].pc = "loop"
  /\ c \in sweep[s].todo
  /\ Len(escalations[c]) < MaxEsc
  /\ LET done == loopBody(sweep[s].snap[c], complaints[c], escalations[c],
                          sweep[s].now, now)
         todo == sweep[s].todo \ {c}
         counts == [sweep[s].counts EXCEPT
                      !.breaches = IF done.isBreach THEN @ + 1 ELSE @,
                      !.warnings = IF done.isWarning THEN @ + 1 ELSE @,
                      !.escalations = IF done.escalate THEN @ + 1 ELSE @]
     IN /\ Len(log_status_change(statusLogs[c], complaints[c].status,
                                 done.row.status)) <= MaxLog
        /\ complaints' = [complaints EXCEPT ![c] = done.row]
        /\ statusLogs' = [statusLogs EXCEPT ![c] =
             log_status_change(@, complaints[c].status, done.row.status)]
        /\ changes' = [changes EXCEPT ![c] =
             CountChange(@, complaints[c].status, done.row.status)]
        /\ escalations' = [escalations EXCEPT ![c] = done.rows]
        /\ sweep' = [sweep EXCEPT ![s] =
             IF todo = {} THEN IdleSweep
             ELSE [@ EXCEPT !.todo = todo, !.counts = counts]]
        /\ ret' = IF todo = {} THEN ReturnCounts(counts) ELSE ret
  /\ UNCHANGED <<now, gate, req, call>>

\* a failure inside handleSLABreach aborting the sweep
checkSLABreachesItemAborts(s, c, update, insert) ==
  /\ sweep[s].pc = "loop"
  /\ c \in sweep[s].todo
  /\ <<update, insert>> # <<"ok", "ok">>
  /\ sweep' = [sweep EXCEPT ![s] = IdleSweep]
  /\ ret' = Return("checkSLABreaches", "DatabaseError", NULL, NULL)
  /\ UNCHANGED <<complaints, statusLogs, escalations, now, gate, req, changes,
                 call>>

\* one iteration of the loop in which a write of the store fails
checkSLABreachesItemFails(s, c, update, insert) ==
  /\ sweep[s].pc = "loop"
  /\ c \in sweep[s].todo
  /\ <<update, insert>> # <<"ok", "ok">>
  /\ Len(escalations[c]) < MaxEsc
  /\ LET done == loopBodyWith(sweep[s].snap[c], complaints[c], escalations[c],
                              sweep[s].now, now, update, insert)
         todo == sweep[s].todo \ {c}
         counts == [sweep[s].counts EXCEPT
                      !.breaches = IF done.isBreach THEN @ + 1 ELSE @,
                      !.warnings = IF done.isWarning THEN @ + 1 ELSE @,
                      !.escalations = IF done.escalate THEN @ + 1 ELSE @]
     IN /\ Len(log_status_change(statusLogs[c], complaints[c].status,
                                 done.row.status)) <= MaxLog
        /\ complaints' = [complaints EXCEPT ![c] = done.row]
        /\ statusLogs' = [statusLogs EXCEPT ![c] =
             log_status_change(@, complaints[c].status, done.row.status)]
        /\ changes' = [changes EXCEPT ![c] =
             CountChange(@, complaints[c].status, done.row.status)]
        /\ escalations' = [escalations EXCEPT ![c] = done.rows]
        /\ sweep' = [sweep EXCEPT ![s] =
             IF todo = {} THEN IdleSweep
             ELSE [@ EXCEPT !.todo = todo, !.counts = counts]]
        /\ ret' = IF todo = {} THEN ReturnCounts(counts) ELSE ret
  /\ UNCHANGED <<now, gate, req, call>>

\* the candidate query fails: the error is logged and thrown again
checkSLABreachesQueryError(s) ==
  /\ sweep[s].pc = "idle"
  /\ ret' = Return("checkSLABreaches", "DatabaseError", NULL, NULL)
  /\ UNCHANGED <<complaints, statusLogs, escalations, now, gate, req, sweep, changes,
                 call>>

\* the loop of checkSLABreaches run to its end without interruption, at one
\* instant: cs and es are the tables, snap the rows read by the query
RECURSIVE sweepLoop(_, _, _, _, _, _)
sweepLoop(cs, es, snap, todo, clock, counts) ==
  IF todo = {} THEN [complaints |-> cs, escalations |-> es, counts |-> counts]
  ELSE LET c == CHOOSE x \in todo : TRUE
           done == loopBody(snap[c], cs[c], es[c], clock, clock)
       IN sweepLoop([cs EXCEPT ![c] = done.row], [es EXCEPT ![c] = done.rows],
                    snap, todo \ {c}, clock,
                    [counts EXCEPT
                       !.breaches = IF done.isBreach THEN @ + 1 ELSE @,
                       !.warnings = IF done.isWarning THEN @ + 1 ELSE @,
                       !.escalations = IF done.escalate THEN @ + 1 ELSE @])

\* one whole call of checkSLABreaches on the tables cs and es at time clock
checkSLABreaches(cs, es, clock) ==
  LET todo == candidateQuery(cs)
  IN sweepLoop(cs, es, [c \in todo |-> selected(cs[c])], todo, clock,
               [NoCounts EXCEPT !.checked = Cardinality(todo)])

\* acknowledgeEscalation, for the i-th escalation row of complaint c
acknowledgeEscalation(c, i, userId) ==
  /\ i \in 1..Len(escalations[c])
  /\ escalations' = [escalations EXCEPT ![c][i] =
       [@ EXCEPT !.acknowledged = TRUE, !.acknowledged_at = now,
                 !.acknowledged_by = userId]]
  /\ ret' = Return("acknowledgeEscalation", "ok", c, NULL)
  /\ UNCHANGED <<complaints, statusLogs, now, gate, req, sweep, changes, call>>

Tick(d) ==
    /\ now + d <= MaxTime
    /\ now' = now + d
    /\ UNCHANGED <<complaints, statusLogs, escalations, gate, req, sweep, ret,
                   changes, call>>

(***************************************************************************)
(* The system: inputs of the operations                                    *)
(***************************************************************************)
GateResponses ==
  { NoJson("throw"),
    JsonResponse("SAFETY", "critical", "num", 750),
    JsonResponse("SAFETY", "high", "num", 600) }

ReclassifyResponses ==
  { NoJson("garbage"), JsonResponse("SAFETY", "critical", "num", 750) }

WebhookStatuses == {"assigned", "closed"}

TickSteps == {6}

ReviewOverrides == { <<NULL, NULL>>, <<"d_other", "high">> }

Next ==
  \/ \E c \in OneComplaint : createComplaint(c)
  \/ \E c \in OneComplaint, r \in GateResponses : ClassifierReturns(c, r)
  \/ \E c \in OneComplaint, found \in BOOLEAN :
        processComplaintClassification(c, found, FALSE)
  \/ \E c \in OneComplaint, approved \in BOOLEAN, o \in ReviewOverrides :
        reviewComplaintRead(c, approved, o[1], o[2], 1)
  \/ \E r \in BagToSet(req) : reviewComplaintWrite(r)
  \/ \E c \in OneComplaint, status \in Statuses :
        updateComplaintStatusRead(c, status, 1)
  \/ \E r \in BagToSet(req) : updateComplaintStatusWrite(r)
  \/ \E c \in OneComplaint : assignComplaint(c)
  \/ \E c \in OneComplaint, status \in WebhookStatuses : webhookStatusUpdate(c, status)
  \/ \E c \in OneComplaint, r \in ReclassifyResponses : reclassify(c, r, TRUE, FALSE)
  \/ \E s \in ScheduledSweep : checkSLABreachesStart(s)
  \/ \E s \in ScheduledSweep, c \in OneComplaint : checkSLABreachesItem(s, c)
  \/ \E c \in OneComplaint, i \in 1..MaxEsc : acknowledgeEscalation(c, i, "admin")
  \/ \E d \in TickSteps : Tick(d)

Spec == Init /\ [][Next]_vars

(***************************************************************************)
(* A second system, for races on the status of one classified complaint:   *)
(* once the background classification has finished, two                    *)
(* updateComplaintStatus calls may be in flight next to the sweep.         *)
(***************************************************************************)
NextRace ==
  \/ \E c \in OneComplaint : createComplaint(c)
  \/ \E c \in OneComplaint, r \in GateResponses : ClassifierReturns(c, r)
  \/ \E c \in OneComplaint : processComplaintClassification(c, TRUE, FALSE)
  \/ \E c \in OneComplaint, status \in Statuses :
        gate[c].pc = "done" /\ updateComplaintStatusRead(c, status, 2)
  \/ \E r \in BagToSet(req) : updateComplaintStatusWrite(r)
  \/ \E s \in ScheduledSweep : checkSLABreachesStart(s)
  \/ \E s \in ScheduledSweep, c \in OneComplaint : checkSLABreachesItem(s, c)
  \/ \E d \in TickSteps : Tick(d)

SpecRace == Init /\ [][NextRace]_vars

(***************************************************************************)
(* A third system, for the intake: submission, background classification   *)
(* over every kind of classifier response and department lookup, and the   *)
(* manual review.                                                          *)
(***************************************************************************)
NextGate ==
  \/ \E c \in OneComplaint : createComplaint(c)
  \/ \E c \in OneComplaint, r \in ClassifierResponses : ClassifierReturns(c, r)
  \/ \E c \in OneComplaint, found \in BOOLEAN, crit \in BOOLEAN :
        processComplaintClassification(c, found, crit)
  \/ \E c \in OneComplaint, approved \in BOOLEAN, o \in ReviewOverrides :
        reviewComplaintRead(c, approved, o[1], o[2], 1)
  \/ \E r \in BagToSet(req) : reviewComplaintWrite(r)
  \/ \E d \in TickSteps : Tick(d)

SpecGate == Init /\ [][NextGate]_vars

\* the intake when the classifier call comes to an end (it returns or fails)
\* and the detached task of createComplaint goes on after it
GateFairness ==
  /\ WF_vars(\E c \in OneComplaint, r \in ClassifierResponses :
                ClassifierReturns(c, r))
  /\ WF_vars(\E c \in OneComplaint, found \in BOOLEAN, crit \in BOOLEAN :
                processComplaintClassification(c, found, crit))

SpecGateLive == Init /\ [][NextGate]_vars /\ GateFairness

(***************************************************************************)
(* A fourth system, for the escalation ladder: one auto-approved complaint *)
(* with a deadline 3 hours after submission, department users moving it    *)
(* between statuses, acknowledgements, and sweeps at chosen instants up to *)
(* 87 hours.                                                               *)
(***************************************************************************)
LadderResponses == { JsonResponse("SAFETY", "critical", "num", 750) }

LadderStatuses == {"in_progress"}

LadderInstants == {0, 24, 33, 36, 37, 48, 60, 75, 87}

\* time passes until the next of the instants
TickTo(instants) ==
  /\ \E t \in instants : t > now
  /\ now' = CHOOSE t \in instants :
               t > now /\ \A u \in instants : u > now => t <= u
  /\ UNCHANGED <<complaints, statusLogs, escalations, gate, req, sweep, ret, changes,
                 call>>

NextLadder ==
  \/ \E c \in OneComplaint : createComplaint(c)
  \/ \E c \in OneComplaint, r \in LadderResponses : ClassifierReturns(c, r)
  \/ \E c \in OneComplaint : processComplaintClassification(c, TRUE, FALSE)
  \/ \E c \in OneComplaint, status \in LadderStatuses :
        updateComplaintStatusRead(c, status, 1)
  \/ \E r \in BagToSet(req) : updateComplaintStatusWrite(r)
  \/ \E s \in ScheduledSweep : checkSLABreachesStart(s)
  \/ \E s \in ScheduledSweep, c \in OneComplaint : checkSLABreachesItem(s, c)
  \/ \E c \in OneComplaint, i \in 1..MaxEsc : acknowledgeEscalation(c, i, "admin")
  \/ TickTo(LadderInstants)

SpecLadder == Init /\ [][NextLadder]_vars

(***************************************************************************)
(* A fifth system, for overlapping sweeps: the scheduled sweep and the     *)
(* sweep started by an admin run side by side over one auto-approved       *)
(* complaint.                                                              *)
(***************************************************************************)
NextOverlap ==
  \/ \E c \in OneComplaint : createComplaint(c)
  \/ \E c \in OneComplaint, r \in LadderResponses : ClassifierReturns(c, r)
  \/ \E c \in OneComplaint : processComplaintClassification(c, TRUE, FALSE)
  \/ \E s \in Sweeps : checkSLABreachesStart(s)
  \/ \E s \in Sweeps, c \in OneComplaint : checkSLABreachesItem(s, c)
  \/ \E d \in TickSteps : Tick(d)

SpecOverlap == Init /\ [][NextOverlap]_vars

(***************************************************************************)
(* A sixth system, for failures of the store during a sweep: two           *)
(* auto-approved complaints, and a sweep whose query or whose writes may   *)
(* fail.                                                                   *)
(***************************************************************************)
NextFail ==
  \/ \E c \in Complaints : createComplaint(c)
  \/ \E c \in Complaints, r \in LadderResponses : ClassifierReturns(c, r)
  \/ \E c \in Complaints : processComplaintClassification(c, TRUE, FALSE)
  \/ \E s \in ScheduledSweep : checkSLABreachesStart(s)
  \/ \E s \in ScheduledSweep : checkSLABreachesQueryError(s)
  \/ \E s \in ScheduledSweep, c \in Complaints : checkSLABreachesItem(s, c)
  \/ \E s \in ScheduledSweep, c \in Complaints, update \in WriteOutcomes,
        insert \in {"ok", "error"} :
        checkSLABreachesItemFails(s, c, update, insert)
  \/ \E d \in TickSteps : Tick(d)

SpecFail == Init /\ [][NextFail]_vars

(***************************************************************************)
(* A seventh system, for failures of the notifier: the outgoing webhook of *)
(* a status update, of a review or of a sweep handler is not delivered.    *)
(***************************************************************************)
\* a sendWebhook that lets the failure of the request reach its caller
sendWebhookThrows(delivered) == IF delivered THEN "returned" ELSE "thrown"

\* sendWebhook: how the call ends when the request is delivered or not; the
\* catch logs the failure and does not throw
sendWebhook(delivered) == "returned"

\* triggerNotification: the insert into notifications, then the webhook
triggerNotification(delivered) == sendWebhook(delivered)

\* triggerComplaintRouting: the webhook of the routing workflow
triggerComplaintRouting(delivered) == sendWebhook(delivered)

\* the response of a call whose writes are done and whose webhook failed
ReturnUndelivered(op, c, outcome) ==
  [Return(op, IF outcome = "returned" THEN "ok" ELSE "ExternalServiceError",
          c, NULL) EXCEPT !.undelivered = TRUE]

\* updateComplaintStatus from its update on, the notification not delivered
updateComplaintStatusUndelivered(r) ==
  /\ r.op = "updateComplaintStatus"
  /\ CanLog(r.c)
  /\ LET c == r.c
         row == StatusUpdatedRow(complaints[c], r.to, now)
     IN /\ complaints' = [complaints EXCEPT ![c] = row]
        /\ statusLogs' = [statusLogs EXCEPT ![c] =
             Append(log_status_change(@, complaints[c].status, row.status),
                    [old_status |-> r.from, new_status |-> r.to,
                     changed_by |-> "user", metadata |-> FALSE])]
        /\ changes' = [changes EXCEPT ![c] =
             CountChange(@, complaints[c].status, row.status)]
  /\ ret' = ReturnUndelivered("updateComplaintStatus", r.c,
                              triggerNotification(FALSE))
  /\ req' = req (-) SetToBag({r})
  /\ UNCHANGED <<escalations, now, gate, sweep, call>>

\* reviewComplaint from its update on, neither webhook delivered
reviewComplaintUndelivered(r) ==
  /\ r.op = "reviewComplaint"
  /\ CanLog(r.c)
  /\ LET c == r.c
         row == ReviewedRow(complaints[c], r, now)
         routed == r.to = "approved"
                   /\ (r.department_id # NULL \/ complaints[c].department_id # NULL)
         routing == IF routed THEN triggerComplaintRouting(FALSE) ELSE "returned"
         outcome == IF routing = "returned" THEN triggerNotification(FALSE)
                    ELSE routing
     IN /\ complaints' = [complaints EXCEPT ![c] = row]
        /\ statusLogs' = [statusLogs EXCEPT ![c] =
             log_status_change(@, complaints[c].status, row.status)]
        /\ changes' = [changes EXCEPT ![c] =
             CountChange(@, complaints[c].status, row.status)]
        /\ ret' = ReturnUndelivered("reviewComplaint", c, outcome)
  /\ req' = req (-) SetToBag({r})
  /\ UNCHANGED <<escalations, now, gate, sweep, call>>

\* one iteration of the loop of checkSLABreaches whose handler cannot deliver
\* its webhook: the handler has written before it notifies, and its catch
\* keeps whatever the notification throws
checkSLABreachesItemUndelivered(s, c) ==
  /\ sweep[s].pc = "loop"
  /\ c \in sweep[s].todo
  /\ Len(escalations[c]) < MaxEsc
  /\ LET done == loopBody(sweep[s].snap[c], complaints[c], escalations[c],
                          sweep[s].now, now)
         todo == sweep[s].todo \ {c}
         counts == [sweep[s].counts EXCEPT
                      !.breaches = IF done.isBreach THEN @ + 1 ELSE @,
                      !.warnings = IF done.isWarning THEN @ + 1 ELSE @,
                      !.escalations = IF done.escalate THEN @ + 1 ELSE @]
     IN /\ done.isBreach \/ done.isWarning \/ done.escalate
        /\ Len(log_status_change(statusLogs[c], complaints[c].status,
                                 done.row.status)) <= MaxLog
        /\ complaints' = [complaints EXCEPT ![c] = done.row]
        /\ statusLogs' = [statusLogs EXCEPT ![c] =
             log_status_change(@, complaints[c].status, done.row.status)]
        /\ changes' = [changes EXCEPT ![c] =
             CountChange(@, complaints[c].status, done.row.status)]
        /\ escalations' = [escalations EXCEPT ![c] = done.rows]
        /\ sweep' = [sweep EXCEPT ![s] =
             IF todo = {} THEN IdleSweep
             ELSE [@ EXCEPT !.todo = todo, !.counts = counts]]
        /\ ret' = IF todo = {}
                  THEN [ReturnCounts(counts) EXCEPT !.undelivered = TRUE]
                  ELSE ret
  /\ UNCHANGED <<now, gate, req, call>>

NextNotify ==
  \/ \E c \in OneComplaint : createComplaint(c)
  \/ \E c \in OneComplaint, r \in GateResponses : ClassifierReturns(c, r)
  \/ \E c \in OneComplaint : processComplaintClassification(c, TRUE, FALSE)
  \/ \E c \in OneComplaint, approved \in BOOLEAN, o \in ReviewOverrides :
        reviewComplaintRead(c, approved, o[1], o[2], 1)
  \/ \E r \in BagToSet(req) : reviewComplaintWrite(r)
  \/ \E r \in BagToSet(req) : reviewComplaintUndelivered(r)
  \/ \E c \in OneComplaint, status \in Statuses :
        updateComplaintStatusRead(c, status, 1)
  \/ \E r \in BagToSet(req) : updateComplaintStatusWrite(r)
  \/ \E r \in BagToSet(req) : updateComplaintStatusUndelivered(r)
  \/ \E s \in ScheduledSweep : checkSLABreachesStart(s)
  \/ \E s \in ScheduledSweep, c \in OneComplaint : checkSLABreachesItem(s, c)
  \/ \E s \in ScheduledSweep, c \in OneComplaint :
        checkSLABreachesItemUndelivered(s, c)
  \/ \E d \in TickSteps : Tick(d)

SpecNotify == Init /\ [][NextNotify]_vars

(***************************************************************************)
(* A ninth system, for overlapping sweeps on the ladder: checkEscalation   *)
(* reads the latest Escalation row and decides, and escalateComplaint      *)
(* inserts the next row afterwards, so that another sweep may read or      *)
(* insert between the two.                                                 *)
(***************************************************************************)
\* the loop hands candidate c to checkEscalation, which reads the latest
\* row and decides to advance
checkEscalationRead(s, c) ==
  /\ sweep[s].pc = "loop"
  /\ c \in sweep[s].todo
  /\ LET complaint == sweep[s].snap[c]
         timeUntilDeadline == complaint.sla_deadline - sweep[s].now
     IN /\ complaint.sla_breached /\ complaint.status # "escalated"
        /\ shouldEscalate(escalations[c], Abs(timeUntilDeadline), now)
  /\ sweep' = [sweep EXCEPT ![s] =
       [@ EXCEPT !.pc = "escalate"]
       @@ [cur |-> c,
           currentLevel |-> escalations[c][Len(escalations[c])].escalation_level]]
  /\ UNCHANGED <<complaints, statusLogs, escalations, now, gate, req, ret,
                 changes, call>>

\* escalateComplaint inserts the row of the level after the one that was
\* read, and the loop counts the escalation and goes on
escalateComplaintInsert(s) ==
  /\ sweep[s].pc = "escalate"
  /\ Len(escalations[sweep[s].cur]) < MaxEsc
  /\ LET c == sweep[s].cur
         currentLevel == sweep[s].currentLevel
         nextLevel == ESCALATION_ORDER[LevelIndex(currentLevel) + 1]
         todo == sweep[s].todo \ {c}
         counts == [sweep[s].counts EXCEPT !.escalations = @ + 1]
     IN /\ escalations' = [escalations EXCEPT ![c] =
             Append(@, EscalationRow(nextLevel, currentLevel, now))]
        /\ sweep' = [sweep EXCEPT ![s] =
             IF todo = {} THEN IdleSweep
             ELSE [pc |-> "loop", snap |-> @.snap, todo |-> todo,
                   now |-> @.now, counts |-> counts]]
        /\ ret' = IF todo = {} THEN ReturnCounts(counts) ELSE ret
  /\ UNCHANGED <<complaints, statusLogs, now, gate, req, changes, call>>

RaceInstants == {0, 24, 36, 48, 60}

NextLadderRace ==
  \/ \E c \in OneComplaint : createComplaint(c)
  \/ \E c \in OneComplaint, r \in LadderResponses : ClassifierReturns(c, r)
  \/ \E c \in OneComplaint : processComplaintClassification(c, TRUE, FALSE)
  \/ \E c \in OneComplaint, status \in LadderStatuses :
        updateComplaintStatusRead(c, status, 1)
  \/ \E r \in BagToSet(req) : updateComplaintStatusWrite(r)
  \/ \E s \in Sweeps : checkSLABreachesStart(s)
  \/ \E s \in Sweeps, c \in OneComplaint : checkSLABreachesItem(s, c)
  \/ \E s \in Sweeps, c \in OneComplaint : checkEscalationRead(s, c)
  \/ \E s \in Sweeps : escalateComplaintInsert(s)
  \/ TickTo(RaceInstants)

SpecLadderRace == Init /\ [][NextLadderRace]_vars

(***************************************************************************)
(* A tenth system, for the ladder under the scheduled sweep alone: the     *)
(* workflow scheduler calls POST /sla-check at each of its instants, every *)
(* sweep runs to its end, and nobody touches the complaint.                *)
(***************************************************************************)
ScheduleInstants == {0, 24, 36, 48, 60, 75, 87, 99}

\* the next instant of the schedule after the clock
NextInstant(instants) ==
  CHOOSE t \in instants : t > now /\ \A u \in instants : u > now => t <= u

\* time passes until the next instant of the schedule, at which the
\* scheduled workflow starts checkSLABreaches: the candidate query and `now`
scheduledSLACheck(s, instants) ==
  /\ sweep[s].pc = "idle"
  /\ \E t \in instants : t > now
  /\ now' = NextInstant(instants)
  /\ sweep' = [sweep EXCEPT ![s] =
       [pc |-> IF Candidates = {} THEN "idle" ELSE "loop",
        snap |-> [c \in Candidates |-> Snapshot(c)],
        todo |-> Candidates,
        now |-> IF Candidates = {} THEN 0 ELSE NextInstant(instants),
        counts |-> IF Candidates = {} THEN NoCounts
                   ELSE [NoCounts EXCEPT !.checked = Cardinality(Candidates)]]]
  /\ ret' = IF Candidates = {} THEN ReturnCounts(NoCounts) ELSE ret
  /\ UNCHANGED <<complaints, statusLogs, escalations, gate, req, changes, call>>

NextSchedule ==
  \/ \E c \in OneComplaint : createComplaint(c)
  \/ \E c \in OneComplaint, r \in LadderResponses : ClassifierReturns(c, r)
  \/ \E c \in OneComplaint : processComplaintClassification(c, TRUE, FALSE)
  \/ \E s \in ScheduledSweep : scheduledSLACheck(s, ScheduleInstants)
  \/ \E s \in ScheduledSweep, c \in OneComplaint : checkSLABreachesItem(s, c)
  \/ \E c \in OneComplaint, i \in 1..MaxEsc : acknowledgeEscalation(c, i, "admin")

\* the scheduler keeps calling and every sweep goes through its candidates
ScheduleFairness ==
  /\ WF_vars(\E s \in ScheduledSweep : scheduledSLACheck(s, ScheduleInstants))
  /\ WF_vars(\E s \in ScheduledSweep, c \in OneComplaint :
                checkSLABreachesItem(s, c))

SpecSchedule == Init /\ [][NextSchedule]_vars /\ ScheduleFairness

(***************************************************************************)
(* An eighth system, for the calculators: the SLA deadline and priority    *)
(* score functions of the backend and of the database, each called once on *)
(* arguments drawn from bounded sets.  The instants of a deadline call are *)
(* in quarter hours, those of a score call in hours; a score is in         *)
(* hundredths.                                                             *)
(***************************************************************************)
Quarters(hours) == 4 * hours

\* the sla_hours selected for a department that does not exist
NoSlaHours == -1

\* urgencyMultipliers of calculateSLADeadline, in hundredths
urgencyMultipliers(urgency) ==
  IF urgency = "critical" THEN 25 ELSE IF urgency = "high" THEN 50 ELSE 100

\* calculateSLADeadline: deadline.setHours(deadline.getHours() + slaHours),
\* and setHours keeps the integer part of its argument
calculateSLADeadline(baseSLAHours, urgency, createdAt) ==
  createdAt + Quarters((baseSLAHours * urgencyMultipliers(urgency)) \div 100)

\* calculate_sla_deadline of the schema: v_sla_hours is NULL when the
\* department is missing; the interval keeps the fraction of the hours
calculate_sla_deadline(v_sla_hours, p_urgency, p_created_at) ==
  LET hours == IF v_sla_hours = NoSlaHours THEN 72 ELSE v_sla_hours
      v_urgency_multiplier ==
        IF p_urgency = "critical" THEN 25
        ELSE IF p_urgency = "high" THEN 50 ELSE 100
  IN p_created_at + (Quarters(hours * v_urgency_multiplier) \div 100)

\* numeric(10, 2): n / d rounded to the nearest integer, halves away from zero
RoundNumeric(n, d) ==
  IF n >= 0 THEN (2 * n + d) \div (2 * d) ELSE -((2 * (-n) + d) \div (2 * d))

\* calculate_priority_score of the schema, in hundredths
calculate_priority_score(p_urgency, p_created_at, p_is_critical_area, clock) ==
  LET v_urgency_value10 ==
        IF p_urgency = "critical" THEN 10 ELSE IF p_urgency = "high" THEN 7 ELSE 3
      v_hours_open == clock - p_created_at
      least == Min(v_hours_open, 168)
      v_location_value == IF p_is_critical_area THEN 1 ELSE 0
  IN RoundNumeric((40 * v_urgency_value10 * 10 + 2500 * v_location_value) * 168
                    + 3500 * least, 168)

MaxSlaHours == 6

SlaHours == (1 .. MaxSlaHours) \cup {12, 72, 120}

MaxCreatedAt == 2

ScoreInstants == {0, 1, 84, 168, 200, 260}

DeadlineCalls ==
  [fn : {"calculateSLADeadline"}, urgency : Urgencies, baseSLAHours : SlaHours,
   createdAt : 0 .. MaxCreatedAt, isCriticalArea : {FALSE}, clock : {0},
   result : {0}, done : {FALSE}]
  \cup
  [fn : {"calculate_sla_deadline"}, urgency : Urgencies,
   baseSLAHours : SlaHours \cup {NoSlaHours},
   createdAt : 0 .. MaxCreatedAt, isCriticalArea : {FALSE}, clock : {0},
   result : {0}, done : {FALSE}]

ScoreCalls ==
  [fn : {"calculatePriorityScore", "calculate_priority_score"},
   urgency : Urgencies, baseSLAHours : {0}, createdAt : ScoreInstants,
   isCriticalArea : BOOLEAN, clock : ScoreInstants, result : {0},
   done : {FALSE}]

InitCalc ==
  /\ complaints = << >>
  /\ statusLogs = [c \in Complaints |-> << >>]
  /\ escalations = [c \in Complaints |-> << >>]
  /\ now = 0
  /\ gate = [c \in Complaints |-> NoTask]
  /\ req = EmptyBag
  /\ sweep = [s \in Sweeps |-> IdleSweep]
  /\ ret = NoRet
  /\ changes = [c \in Complaints |-> 0]
  /\ call \in DeadlineCalls \cup ScoreCalls

Returns(fn, result) ==
  /\ call.fn = fn
  /\ ~call.done
  /\ call' = [call EXCEPT !.result = result, !.done = TRUE]
  /\ UNCHANGED <<complaints, statusLogs, escalations, now, gate, req, sweep, ret,
                 changes>>

calculateSLADeadlineCall ==
  Returns("calculateSLADeadline",
          calculateSLADeadline(call.baseSLAHours, call.urgency, call.createdAt))

calculate_sla_deadlineCall ==
  Returns("calculate_sla_deadline",
          calculate_sla_deadline(call.baseSLAHours, call.urgency, call.createdAt))

calculatePriorityScoreCall ==
  Returns("calculatePriorityScore",
          calculatePriorityScore(call.urgency, call.createdAt,
                                 call.isCriticalArea, call.clock))

calculate_priority_scoreCall ==
  Returns("calculate_priority_score",
          calculate_priority_score(call.urgency, call.createdAt,
                                   call.isCriticalArea, call.clock))

NextCalc ==
  \/ calculateSLADeadlineCall
  \/ calculate_sla_deadlineCall
  \/ calculatePriorityScoreCall
  \/ calculate_priority_scoreCall

SpecCalc == InitCalc /\ [][NextCalc]_vars

(***************************************************************************)
(* A system for operations that end a complaint while a sweep is running:  *)
(* one complaint, approved or held for review by the Gate, the manual      *)
(* review and updateComplaintStatus next to the sweep, and a clock that    *)
(* passes the deadline.                                                    *)
(***************************************************************************)
TerminalInstants == {0, 24}

NextTerminal ==
  \/ \E c \in OneComplaint : createComplaint(c)
  \/ \E c \in OneComplaint, r \in GateResponses : ClassifierReturns(c, r)
  \/ \E c \in OneComplaint : processComplaintClassification(c, TRUE, FALSE)
  \/ \E c \in OneComplaint, approved \in BOOLEAN :
        reviewComplaintRead(c, approved, NULL, NULL, 1)
  \/ \E r \in BagToSet(req) : reviewComplaintWrite(r)
  \/ \E c \in OneComplaint, status \in Statuses :
        updateComplaintStatusRead(c, status, 1)
  \/ \E r \in BagToSet(req) : updateComplaintStatusWrite(r)
  \/ \E s \in ScheduledSweep : checkSLABreachesStart(s)
  \/ \E s \in ScheduledSweep, c \in OneComplaint : checkSLABreachesItem(s, c)
  \/ TickTo(TerminalInstants)

SpecTerminal == Init /\ [][NextTerminal]_vars

(***************************************************************************)
(* Properties                                                              *)
(***************************************************************************)
\* the transition table of the state machine, as the specification gives it
SpecEdges ==
  { <<"submitted", "pending_review">>, <<"submitted", "approved">>,
    <<"pending_review", "approved">>, <<"pending_review", "rejected">>,
    <<"approved", "assigned">>,
    <<"assigned", "in_progress">>,
    <<"in_progress", "resolved">>, <<"in_progress", "escalated">>,
    <<"escalated", "in_progress">>, <<"escalated", "resolved">>,
    <<"resolved", "closed">> }

Terminal == {"closed", "rejected"}

\* request r is completed (written) by the step
Completes(r) == CopiesIn(r, req') < CopiesIn(r, req)

\* request r is accepted (validated) by the step
Accepted(r) == CopiesIn(r, req') > CopiesIn(r, req)

C2_StatusChangesValidated ==
  [][ \A c \in Created :
        complaints'[c].status # complaints[c].status
          => \/ <<complaints[c].status, complaints'[c].status>> \in SpecEdges
             \/ /\ complaints'[c].status = "escalated"
                /\ complaints[c].status \notin Terminal
                /\ \E s \in Sweeps : c \in sweep[s].todo /\ c \notin sweep'[s].todo
    ]_vars

\* C3: a successful updateStatus appends exactly one StatusLog row, from the
\* status before the call to the target.
C3_OneRowPerUpdate ==
  [][ \A r \in BagToSet(req) :
        (r.op = "updateComplaintStatus" /\ Completes(r))
          => /\ Len(statusLogs'[r.c]) = Len(statusLogs[r.c]) + 1
             /\ statusLogs'[r.c][Len(statusLogs'[r.c])].old_status = r.from
             /\ statusLogs'[r.c][Len(statusLogs'[r.c])].new_status = r.to
    ]_vars

\* C4: the StatusLog of a complaint has one row per change of its stored
\* status, and rows are only ever appended.
C4_LogMatchesChanges ==
  /\ [](\A c \in Complaints : Len(statusLogs[c]) = changes[c])
  /\ [][ \A c \in Complaints :
          /\ Len(statusLogs'[c]) >= Len(statusLogs[c])
          /\ SubSeq(statusLogs'[c], 1, Len(statusLogs[c])) = statusLogs[c] ]_vars

\* C5: terminal states are absorbing.
C5_TerminalAbsorbing ==
  [][ \A c \in Created :
        complaints[c].status \in Terminal
          => complaints'[c].status = complaints[c].status ]_vars

\* C6: a status write whose read status is no longer the stored one (another
\* updateStatus or the breach transition of the sweep wrote in between) fails
\* with ConflictError and changes nothing.
C6_GuardedWrite ==
  [][ \A r \in BagToSet(req) :
        ( /\ r.op = "updateComplaintStatus"
          /\ Completes(r)
          /\ complaints[r.c].status # r.from )
          => /\ ret'.res = "ConflictError"
             /\ UNCHANGED <<complaints, statusLogs>>
    ]_vars

\* the Gate writes the outcome of the classification of c in this step
GateStep(c) == gate[c].pc = "responded" /\ gate'[c].pc = "done"

\* C7: when classification succeeds, a confidence at or above the threshold
\* ends in approved with is_auto_approved and approved_at set, a confidence
\* below it in pending_review with is_auto_approved false and approved_at null.
C7_AutoApproval ==
  [][ \A c \in Created :
        (GateStep(c) /\ complaints'[c].ai_reasoning = ClassifiedNote)
          => LET row == complaints'[c]
             IN IF row.ai_confidence >= ConfidenceThreshold
                THEN /\ row.status = "approved"
                     /\ row.is_auto_approved
                     /\ row.approved_at = now
                ELSE /\ row.status = "pending_review"
                     /\ ~row.is_auto_approved
                     /\ row.approved_at = NoTime
    ]_vars

\* a complaint auto-approved at a confidence equal to the threshold
C7_Witness ==
  \E c \in Created :
    /\ gate[c].pc = "done"
    /\ complaints[c].ai_confidence = ConfidenceThreshold
    /\ complaints[c].status = "approved"
    /\ complaints[c].is_auto_approved

\* the classifier call failed or its output cannot be used
FailedResponse(r) ==
  \/ r.kind \in {"throw", "empty", "garbage"}
  \/ r.department_code = MISSING
  \/ r.urgency = MISSING
  \/ r.conf_kind = "missing"

\* a confidence that is not a number of [0, 1]
OutOfRangeConfidence(r) ==
  /\ ~FailedResponse(r)
  /\ r.conf_kind = "nan" \/ r.confidence < 0 \/ r.confidence > 1000

\* createComplaint has returned the submitted row without error
SubmitReturned(c) ==
  (c \notin Created /\ c \in DOMAIN complaints')
    => /\ complaints'[c].status = "submitted"
       /\ ret' = Return("createComplaint", "ok", c, NULL)
       /\ gate'[c].pc = "running"

FallbackRow(row) ==
  /\ row.status = "pending_review"
  /\ row.ai_reasoning = FailedNote
  /\ ~row.is_auto_approved

C9_Review ==
  [][ /\ ( /\ ret' # ret
           /\ ret'.op = "reviewComplaint"
           /\ ret'.res = "ValidationError" )
         => /\ complaints[ret'.c].status # "pending_review"
            /\ UNCHANGED <<complaints, statusLogs, req>>
      /\ \A r \in BagToSet(req') :
           (r.op = "reviewComplaint" /\ Accepted(r))
             => /\ complaints[r.c].status = "pending_review"
                /\ UNCHANGED <<complaints, statusLogs, ret>>
      /\ \A r \in BagToSet(req) :
           (r.op = "reviewComplaint" /\ Completes(r))
             => LET old == complaints[r.c]
                    new == complaints'[r.c]
                IN /\ ret' = Return("reviewComplaint", "ok", r.c, NULL)
                   /\ IF r.to = "approved"
                      THEN /\ new.status = "approved"
                           /\ ~new.is_auto_approved
                           /\ new.approved_at = now
                           /\ new.department_id =
                                IF r.department_id # NULL THEN r.department_id
                                ELSE old.department_id
                           /\ new.urgency =
                                IF r.urgency # NULL THEN r.urgency ELSE old.urgency
                      ELSE /\ new.status = "rejected"
                           /\ new.department_id = old.department_id
                           /\ new.urgency = old.urgency
                           /\ new.approved_at = old.approved_at
    ]_vars

\* a complaint approved by a review that overrode department and urgency
C9_Witness ==
  \E c \in Created :
    /\ ret = Return("reviewComplaint", "ok", c, NULL)
    /\ complaints[c].status = "approved"
    /\ complaints[c].department_id = "d_other"
    /\ complaints[c].urgency = "high"
    /\ ~complaints[c].is_auto_approved
    /\ complaints[c].approved_at # NoTime

\* C10: a complaint on the approved path has an SLA deadline and a priority
\* score.
C10_DeadlineOnApprovedPath ==
  \A c \in Created :
    complaints[c].status \in
        {"approved", "assigned", "in_progress", "escalated", "resolved", "closed"}
      => /\ complaints[c].sla_deadline # NoTime
         /\ complaints[c].priority_score # NoScore

\* C11: once the sla_deadline of a complaint is set, no step of a review,
\* updateStatus, assignComplaint, webhook event, sweep or acknowledgement
\* changes it; only a reclassification may.
C11_DeadlineImmutable ==
  [][ \A c \in Created :
        (complaints[c].sla_deadline # NoTime
           /\ complaints'[c].sla_deadline # complaints[c].sla_deadline)
          => (ret' # ret /\ ret'.op = "reclassify") ]_vars

\* a complaint whose deadline was set by the Gate and which a review then
\* approved with a department and an urgency override
C11_Witness ==
  \E c \in Created :
    /\ ret = Return("reviewComplaint", "ok", c, NULL)
    /\ complaints[c].status = "approved"
    /\ complaints[c].urgency = "high"
    /\ complaints[c].department_id = "d_other"
    /\ complaints[c].sla_deadline # NoTime
    /\ complaints[c].sla_deadline < complaints[c].approved_at + 60

\* sweep s handles candidate c in this step
ItemStep(s, c) == c \in sweep[s].todo /\ c \notin sweep'[s].todo

\* the counters of sweep s after the step: returned when the sweep has ended
CountsAfter(s) == IF sweep'[s].pc = "idle" THEN ret'.counts ELSE sweep'[s].counts

\* C12: a candidate of a sweep that is overdue (now > sla_deadline) and not
\* yet breached is marked breached and notified, moved to escalated, given
\* exactly one new Escalation row of level_1 without previous level, and
\* counted once in breaches; a complaint with now <= sla_deadline is never
\* marked breached.
C12_BreachHandled ==
  [][ /\ \A s \in Sweeps, c \in Complaints :
           ItemStep(s, c) =>
             LET snap == sweep[s].snap[c]
                 overdue == sweep[s].now > snap.sla_deadline
             IN /\ (overdue /\ ~snap.sla_breached)
                     => /\ complaints'[c].sla_breached
                        /\ complaints'[c].sla_breach_notified
                        /\ complaints'[c].status = "escalated"
                        /\ Len(escalations'[c]) = Len(escalations[c]) + 1
                        /\ SubSeq(escalations'[c], 1, Len(escalations[c])) = escalations[c]
                        /\ escalations'[c][Len(escalations'[c])].escalation_level = "level_1"
                        /\ escalations'[c][Len(escalations'[c])].previous_level = NULL
                        /\ CountsAfter(s).breaches = sweep[s].counts.breaches + 1
                /\ ~overdue
                     => /\ complaints'[c].sla_breached = complaints[c].sla_breached
                        /\ CountsAfter(s).breaches = sweep[s].counts.breaches
      /\ \A c \in Created :
           (~complaints[c].sla_breached /\ complaints'[c].sla_breached)
             => \E s \in Sweeps :
                  ItemStep(s, c) /\ sweep[s].now > complaints[c].sla_deadline
    ]_vars

\* a sweep has returned one breach for a complaint that is now breached,
\* notified and escalated, with a single Escalation row of level_1
C12_Witness ==
  \E c \in Created :
    /\ ret.op = "checkSLABreaches" /\ ret.counts.breaches = 1
    /\ complaints[c].sla_breached /\ complaints[c].sla_breach_notified
    /\ complaints[c].status = "escalated"
    /\ Len(escalations[c]) = 1
    /\ escalations[c][1].escalation_level = "level_1"
    /\ escalations[c][1].previous_level = NULL

\* C13: a sweep counts a warning for a candidate only when
\* 0 < sla_deadline - now < warningThreshold and the complaint is not yet
\* notified; the step sets sla_breach_notified, leaves status and sla_breached
\* unchanged and counts one warning.  The flag is never reset, so a complaint
\* is counted as a warning at most once.
C13_WarningOnce ==
  [][ /\ \A s \in Sweeps, c \in Complaints :
           (ItemStep(s, c) /\ CountsAfter(s).warnings # sweep[s].counts.warnings)
             => LET snap == sweep[s].snap[c]
                    left == snap.sla_deadline - sweep[s].now
                IN /\ 0 < left /\ left < WarningHoursBefore
                   /\ ~snap.sla_breach_notified
                   /\ ~complaints[c].sla_breach_notified
                   /\ complaints'[c].sla_breach_notified
                   /\ complaints'[c].status = complaints[c].status
                   /\ complaints'[c].sla_breached = complaints[c].sla_breached
                   /\ escalations'[c] = escalations[c]
                   /\ CountsAfter(s).warnings = sweep[s].counts.warnings + 1
      /\ \A c \in Created :
           complaints[c].sla_breach_notified => complaints'[c].sla_breach_notified
    ]_vars

\* a sweep has returned one warning for a complaint that is notified and not
\* breached
C13_Witness ==
  \E c \in Created :
    /\ ret.op = "checkSLABreaches" /\ ret.counts.warnings = 1
    /\ ret.counts.breaches = 0
    /\ complaints[c].sla_breach_notified
    /\ ~complaints[c].sla_breached
    /\ complaints[c].sla_deadline - now < WarningHoursBefore
    /\ complaints[c].sla_deadline - now > 0

\* C14: checkSLABreaches is idempotent at a fixed instant: in every reachable
\* state, a second call that follows a first one with no time elapsed and
\* nothing in between returns no warning, no breach and no escalation, and
\* changes no complaint and no Escalation row.
C14_SweepIdempotent ==
  LET first == checkSLABreaches(complaints, escalations, now)
      second == checkSLABreaches(first.complaints, first.escalations, now)
  IN /\ second.counts.warnings = 0
     /\ second.counts.breaches = 0
     /\ second.counts.escalations = 0
     /\ second.complaints = first.complaints
     /\ second.escalations = first.escalations

\* a state in which a call of checkSLABreaches advances a complaint whose
\* overdue time already exceeds the threshold of the level it is advanced to
C14_Witness ==
  LET first == checkSLABreaches(complaints, escalations, now)
  IN /\ first.counts.escalations = 1
     /\ \E c \in Created :
          /\ Len(first.escalations[c]) = 2
          /\ first.escalations[c][2].escalation_level = "level_2"
          /\ now - complaints[c].sla_deadline >= escalationThresholds("level_2")

\* the number of rows of level `level` among rows
RECURSIVE CountLevel(_, _)
CountLevel(rows, level) ==
  IF rows = << >> THEN 0
  ELSE CountLevel(Tail(rows), level)
         + (IF Head(rows).escalation_level = level THEN 1 ELSE 0)

\* C15: under overlapping sweeps a newly overdue complaint is counted as a
\* breach by one sweep only and gets one level_1 Escalation row, and a
\* warning is counted by one sweep only: a sweep counts a breach (a warning)
\* for a complaint only if no sweep has marked it breached (notified) before.
C15_OverlapCountsOnce ==
  /\ [](\A c \in Complaints : CountLevel(escalations[c], "level_1") <= 1)
  /\ [][ \A s \in Sweeps, c \in Complaints :
           ItemStep(s, c) =>
             /\ CountsAfter(s).breaches # sweep[s].counts.breaches
                  => ~complaints[c].sla_breached
             /\ CountsAfter(s).warnings # sweep[s].counts.warnings
                  => ~complaints[c].sla_breach_notified ]_vars

\* the order of the escalation levels: level_1 < level_2 < level_3 < executive
LevelRank(level) ==
  CASE level = "level_1" -> 1
    [] level = "level_2" -> 2
    [] level = "level_3" -> 3
    [] level = "executive" -> 4

\* C16: the levels of the Escalation rows of a complaint, in creation order,
\* never decrease, rows are only appended, and once the most recent row is
\* executive no further row is appended.
C16_EscalationMonotonic ==
  /\ [](\A c \in Complaints :
          \A i, j \in 1..Len(escalations[c]) :
            i < j => LevelRank(escalations[c][i].escalation_level)
                       <= LevelRank(escalations[c][j].escalation_level))
  /\ [][ \A c \in Complaints :
           /\ Len(escalations'[c]) >= Len(escalations[c])
           /\ ( /\ escalations[c] # << >>
                /\ escalations[c][Len(escalations[c])].escalation_level = "executive" )
                => Len(escalations'[c]) = Len(escalations[c]) ]_vars

\* a complaint that climbed the four levels, swept again more than 12 hours
\* after it reached executive
C16_Witness ==
  \E c \in Created :
    /\ Len(escalations[c]) = 4
    /\ escalations[c][1].escalation_level = "level_1"
    /\ escalations[c][2].escalation_level = "level_2"
    /\ escalations[c][3].escalation_level = "level_3"
    /\ escalations[c][4].escalation_level = "executive"
    /\ now - escalations[c][4].created_at >= MinHoursBetweenEscalations
    /\ ret.op = "checkSLABreaches"
    /\ ret.counts.checked = 1 /\ ret.counts.escalations = 0

\* sweep s appends a row by a ladder advance for c in this step
Advances(s, c) ==
  /\ ItemStep(s, c)
  /\ CountsAfter(s).escalations # sweep[s].counts.escalations

\* C17: a sweep advances a breached complaint only if at least 12 hours have
\* elapsed since its most recent Escalation row; and a breached complaint
\* whose most recent row is level_1, created at least 12 hours ago, with more
\* than 24 hours overdue, is advanced to level_2 by the sweep.
C17_Hysteresis ==
  [][ \A s \in Sweeps, c \in Complaints :
        /\ Advances(s, c)
             => /\ escalations[c] # << >>
                /\ now - escalations[c][Len(escalations[c])].created_at
                     >= MinHoursBetweenEscalations
        /\ ( /\ ItemStep(s, c)
             /\ sweep[s].snap[c].sla_breached
             /\ Len(escalations[c]) = 1
             /\ escalations[c][1].escalation_level = "level_1"
             /\ now - escalations[c][1].created_at >= MinHoursBetweenEscalations
             /\ sweep[s].now - sweep[s].snap[c].sla_deadline > escalationThresholds("level_1") )
             => /\ Len(escalations'[c]) = 2
                /\ escalations'[c][2].escalation_level = "level_2"
    ]_vars

\* the rows without their acknowledgement
Unacknowledged(rows) ==
  [i \in 1..Len(rows) |->
     [rows[i] EXCEPT !.acknowledged = FALSE, !.acknowledged_at = NoTime,
                     !.acknowledged_by = NULL]]

\* C18: acknowledgeEscalation changes only acknowledged, acknowledged_at and
\* acknowledged_by of one Escalation row and leaves every other row and the
\* complaint unchanged; a sweep treats a complaint with acknowledged rows as
\* it would treat the same complaint with no row acknowledged.
C18_AcknowledgeIndependent ==
  [][ /\ (ret'.op = "acknowledgeEscalation" /\ escalations' # escalations)
         => /\ UNCHANGED <<complaints, statusLogs>>
            /\ \E c \in Complaints :
                 /\ \A d \in Complaints \ {c} : escalations'[d] = escalations[d]
                 /\ Len(escalations'[c]) = Len(escalations[c])
                 /\ \E i \in 1..Len(escalations[c]) :
                      /\ \A j \in 1..Len(escalations[c]) :
                           j # i => escalations'[c][j] = escalations[c][j]
                      /\ escalations'[c][i] =
                           [escalations[c][i] EXCEPT
                              !.acknowledged = TRUE, !.acknowledged_at = now,
                              !.acknowledged_by = "admin"]
      /\ \A s \in Sweeps, c \in Complaints :
           ItemStep(s, c) =>
             LET plain == loopBody(sweep[s].snap[c], complaints[c],
                                   Unacknowledged(escalations[c]), sweep[s].now, now)
             IN /\ complaints'[c] = plain.row
                /\ Unacknowledged(escalations'[c]) = plain.rows
    ]_vars

\* a complaint advanced to level_2 after its level_1 row was acknowledged
C18_Witness ==
  \E c \in Created :
    /\ Len(escalations[c]) >= 2
    /\ escalations[c][1].acknowledged
    /\ escalations[c][1].acknowledged_by = "admin"
    /\ escalations[c][2].escalation_level = "level_2"
    /\ escalations[c][1].acknowledged_at < escalations[c][2].created_at
    /\ ~escalations[c][2].acknowledged

\* C19: checkSLABreaches never surfaces an error to its caller: whatever
\* fails during a sweep, the failure of the candidate query included, the
\* call returns its counters.
C19_SweepNeverThrows ==
  [][ (ret' # ret /\ ret'.op = "checkSLABreaches") => ret'.res = "ok" ]_vars

\* C20: a failure while one candidate is handled is confined to it: the step
\* leaves every other complaint and its Escalation rows unchanged, takes only
\* the handled candidate out of the work of the sweep, keeps the rows read by
\* the query and the sweep's `now`, and returns no error; and every candidate
\* whose own writes succeed is processed as the loop body prescribes.
C20_ItemFailureIsolated ==
  [][ \A s \in Sweeps :
        sweep[s].pc = "loop" /\ sweep'[s] # sweep[s]
          => \E c \in sweep[s].todo :
               /\ \A d \in Complaints \ {c} :
                    /\ d \in Created => complaints'[d] = complaints[d]
                    /\ escalations'[d] = escalations[d]
               /\ IF sweep[s].todo = {c}
                  THEN /\ sweep'[s] = IdleSweep
                       /\ ret'.op = "checkSLABreaches" /\ ret'.res = "ok"
                       /\ ret'.counts.checked = sweep[s].counts.checked
                  ELSE /\ sweep'[s].pc = "loop"
                       /\ sweep'[s].todo = sweep[s].todo \ {c}
                       /\ sweep'[s].snap = sweep[s].snap
                       /\ sweep'[s].now = sweep[s].now
                       /\ ret' = ret
               /\ LET ok == loopBody(sweep[s].snap[c], complaints[c],
                                     escalations[c], sweep[s].now, now)
                  IN \/ /\ complaints'[c] = ok.row
                        /\ escalations'[c] = ok.rows
                     \/ \E update \in WriteOutcomes, insert \in {"ok", "error"} :
                          LET ko == loopBodyWith(sweep[s].snap[c], complaints[c],
                                      escalations[c], sweep[s].now, now, update, insert)
                          IN /\ complaints'[c] = ko.row
                             /\ escalations'[c] = ko.rows
    ]_vars

\* a sweep over two overdue complaints has returned: the update of one of
\* them failed, the other one is breached, escalated and has its level_1 row
C20_Witness ==
  \E c, d \in Created :
    /\ c # d
    /\ ret.op = "checkSLABreaches" /\ ret.counts.checked = 2
    /\ now > complaints[c].sla_deadline /\ complaints[c].sla_deadline # NoTime
    /\ ~complaints[c].sla_breached /\ escalations[c] = << >>
    /\ complaints[d].sla_breached /\ complaints[d].status = "escalated"
    /\ Len(escalations[d]) = 1

\* C21: a notifier failure never propagates: when the webhook of the call is
\* not delivered, updateComplaintStatus and reviewComplaint answer success
\* with the new status stored and the row of the status change in the status
\* log (the row of a review is the one the trigger writes when the stored
\* status changes), and a sweep
\* keeps the breach (breached, escalated, a level_1 row) or the ladder advance
\* (one more escalation row) of that complaint
C21_NotifierFailureContained ==
  [][ /\ \A r \in BagToSet(req) :
           updateComplaintStatusUndelivered(r) \/ reviewComplaintUndelivered(r)
           => /\ ret'.res = "ok" /\ ret'.c = r.c /\ ret'.undelivered
              /\ complaints'[r.c].status = r.to
              /\ (r.op = "updateComplaintStatus" \/ complaints[r.c].status # r.to)
                   => /\ Len(statusLogs'[r.c]) > Len(statusLogs[r.c])
                      /\ statusLogs'[r.c][Len(statusLogs'[r.c])].new_status = r.to
      /\ \A s \in ScheduledSweep, c \in OneComplaint :
           checkSLABreachesItemUndelivered(s, c)
           => LET snap == sweep[s].snap[c]
                  isBreach == snap.sla_deadline < sweep[s].now /\ ~snap.sla_breached
              IN /\ ret'.res = "ok" /\ ret'.undelivered
                 /\ isBreach =>
                      /\ complaints'[c].sla_breached
                      /\ complaints'[c].status = "escalated"
                      /\ Len(escalations'[c]) = Len(escalations[c]) + 1
                      /\ escalations'[c][Len(escalations'[c])].escalation_level
                           = "level_1"
                 /\ ret'.counts.escalations > 0 =>
                      Len(escalations'[c]) = Len(escalations[c]) + 1
                 /\ Len(escalations'[c]) >= Len(escalations[c]) ]_vars

\* an undelivered notification of a status update that entered in_progress
C21_Witness ==
  /\ ret.op = "updateComplaintStatus" /\ ret.undelivered /\ ret.res = "ok"
  /\ complaints["c1"].status = "in_progress"

\* the multipliers of the deadline calculator as the specification gives them,
\* in hundredths
SpecMultiplier(urgency) ==
  CASE urgency = "critical" -> 25 [] urgency = "high" -> 50
    [] urgency = "normal" -> 100

DeadlineCall == call.fn \in {"calculateSLADeadline", "calculate_sla_deadline"}

\* C22: the SLA deadline calculator returns createdAt + baseHours * multiplier
\* for every base-hours value and urgency, with the multipliers 0.25, 0.5 and
\* 1.0 and with 72 base hours when the department is missing
C22_DeadlineIsProduct ==
  DeadlineCall /\ call.done =>
    LET baseHours == IF call.baseSLAHours = NoSlaHours THEN 72
                     ELSE call.baseSLAHours
    IN 100 * (call.result - call.createdAt)
         = Quarters(baseHours) * SpecMultiplier(call.urgency)

\* C22, the part that holds: 72 base hours and urgency critical give 18
\* hours, a missing department counts as 72 hours, the database function is
\* exact, and a more urgent complaint never has a later deadline
C22_DeadlineOrdered ==
  DeadlineCall /\ call.done =>
    LET baseHours == IF call.baseSLAHours = NoSlaHours THEN 72
                     ELSE call.baseSLAHours
        deadline(u) ==
          IF call.fn = "calculateSLADeadline"
          THEN calculateSLADeadline(call.baseSLAHours, u, call.createdAt)
          ELSE calculate_sla_deadline(call.baseSLAHours, u, call.createdAt)
    IN /\ baseHours = 72 /\ call.urgency = "critical"
            => call.result = call.createdAt + Quarters(18)
       /\ call.fn = "calculate_sla_deadline"
            => 100 * (call.result - call.createdAt)
                 = Quarters(baseHours) * SpecMultiplier(call.urgency)
       /\ call.result = deadline(call.urgency)
       /\ deadline("critical") <= deadline("high")
       /\ deadline("high") <= deadline("normal")

ScoreCall == call.fn \in {"calculatePriorityScore", "calculate_priority_score"}

\* the urgency values of the priority score as the specification gives
\* them, in tenths
SpecUrgencyValue(urgency) ==
  CASE urgency = "critical" -> 10 [] urgency = "high" -> 7
    [] urgency = "normal" -> 3

\* 168 times the weighted sum 40 u + 35 min(hoursSince / 168, 1) + 25 loc, in
\* hundredths
WeightedSum168 ==
  168 * (400 * SpecUrgencyValue(call.urgency)
         + (IF call.isCriticalArea THEN 2500 ELSE 0))
  + 3500 * Min(call.clock - call.createdAt, 168)

\* the score is the weighted sum rounded to 2 decimals
ScoreIsRoundedSum == 2 * Abs(168 * call.result - WeightedSum168) <= 168

C23_ScoreOfPast ==
  ScoreCall /\ call.done =>
    /\ ScoreIsRoundedSum
    /\ call.result <= 10000
    /\ call.createdAt <= call.clock => call.result >= 1200
    /\ call.urgency = "critical" /\ call.createdAt = call.clock
       /\ call.isCriticalArea => call.result = 6500

\* C24: a resolved complaint can be reopened: updateComplaintStatus accepts
\* the transition resolved -> in_progress, and does not answer it with a
\* validation error
C24_ResolvedCanReopen ==
  [][ \A c \in OneComplaint :
        /\ c \in Created
        /\ complaints[c].status = "resolved"
        /\ updateComplaintStatusRead(c, "in_progress", 1)
        => /\ ret' = ret
           /\ \E r \in BagToSet(req') :
                r.op = "updateComplaintStatus" /\ r.c = c /\ r.to = "in_progress"
    ]_vars

\* C25: in every sweep a complaint that is already sla_breached and whose
\* status is not resolved, closed or rejected (status escalated included) is
\* handed to the ladder: if its latest row is below executive, it is overdue
\* by more than the threshold of that level and the latest row is at least
\* 12 hours old, the sweep appends the row of the next level
C25_BreachedReachesLadder ==
  [][ \A s \in Sweeps, c \in Complaints :
        ( /\ ItemStep(s, c)
          /\ sweep[s].snap[c].sla_breached
          /\ sweep[s].snap[c].status \notin {"resolved", "closed", "rejected"}
          /\ escalations[c] # << >>
          /\ LevelIndex(escalations[c][Len(escalations[c])].escalation_level)
               < Len(ESCALATION_ORDER)
          /\ sweep[s].now - sweep[s].snap[c].sla_deadline
               > escalationThresholds(
                   escalations[c][Len(escalations[c])].escalation_level)
          /\ now - escalations[c][Len(escalations[c])].created_at
               >= MinHoursBetweenEscalations )
        => /\ Len(escalations'[c]) = Len(escalations[c]) + 1
           /\ LevelIndex(escalations'[c][Len(escalations'[c])].escalation_level)
                = LevelIndex(escalations[c][Len(escalations[c])].escalation_level) + 1
    ]_vars

\* the hours overdue that sweep s computes for c
HoursOverdue(s, c) == Abs(sweep[s].snap[c].sla_deadline - sweep[s].now)

\* the level of the latest Escalation row of c
CurrentLevel(c) == escalations[c][Len(escalations[c])].escalation_level

C27_CoolDownUnderOverlap ==
  \A c \in Complaints :
    \A i \in 1 .. Len(escalations[c]) - 1 :
      escalations[c][i + 1].previous_level # NULL =>
        /\ escalations[c][i + 1].created_at - escalations[c][i].created_at
             >= MinHoursBetweenEscalations
        /\ LevelRank(escalations[c][i + 1].escalation_level)
             = LevelRank(escalations[c][i].escalation_level) + 1

\* C28: in every reachable state a complaint with status resolved or closed
\* has a resolved_at and a complaint with status closed has a closed_at,
\* whichever operation changed the status
C28_ResolutionTimesSet ==
  \A c \in Created :
    /\ complaints[c].status \in {"resolved", "closed"}
         => complaints[c].resolved_at # NoTime
    /\ complaints[c].status = "closed" => complaints[c].closed_at # NoTime

\* C29: a complaint that the Gate sent to pending_review because its
\* confidence is below the threshold has no SLA deadline, and is no candidate
\* of the breach sweep, for as long as it is pending_review
C29_NoDeadlineWhilePending ==
  \A c \in Created :
    ( /\ complaints[c].status = "pending_review"
      /\ complaints[c].ai_reasoning = ClassifiedNote
      /\ complaints[c].ai_confidence < ConfidenceThreshold )
    => /\ complaints[c].sla_deadline = NoTime
       /\ c \notin Candidates

\* the sla_hours of the department with this id
SlaHoursOf(id) ==
  LET code == CHOOSE k \in DepartmentCodes : Departments[k].id = id
  IN Departments[code].sla_hours

\* C30: the sla_deadline that the Gate stores is created_at plus the
\* department's sla_hours times the multiplier of the urgency, however much
\* time passed between the submission and the end of the classification
C30_DeadlineFromCreatedAt ==
  [][ \A c \in Created :
        (GateStep(c) /\ complaints'[c].sla_deadline # NoTime)
          => 100 * (complaints'[c].sla_deadline - complaints'[c].created_at)
               = SlaHoursOf(complaints'[c].department_id)
                   * SpecMultiplier(complaints'[c].urgency) ]_vars

\* C31: the Gate only performs submitted -> approved and submitted ->
\* pending_review: when another operation has moved the complaint out of
\* submitted while the classification was running, neither the result of the
\* Gate nor its failure fallback overwrites that status
C31_GateOnlyFromSubmitted ==
  [][ \A c \in Created :
        GateStep(c) =>
          /\ complaints[c].status # "submitted"
               => complaints'[c].status = complaints[c].status
          /\ complaints[c].status = "submitted"
               => complaints'[c].status \in {"approved", "pending_review"}
    ]_vars

\* C32: provided the classifier call returns or fails and the store accepts
\* the writes, every complaint that was created leaves status submitted: the
\* Gate puts it in approved or pending_review
C32_IntakeLive ==
  \A c \in Complaints :
    (c \in Created /\ complaints[c].status = "submitted") ~>
      (c \in Created /\ gate[c].pc = "done"
       /\ complaints[c].status \in {"approved", "pending_review"})

\* a complaint whose classifier call failed and which the Gate has parked
C32_Witness ==
  /\ "c1" \in Created
  /\ gate["c1"].pc = "done"
  /\ complaints["c1"].status = "pending_review"
  /\ complaints["c1"].ai_reasoning = FailedNote

\* the first instant of the schedule after the start
FirstInstant ==
  CHOOSE t \in ScheduleInstants \ {0} : \A u \in ScheduleInstants \ {0} : t <= u

\* C33: under repeated sweeps and advancing time, a breached complaint that
\* never becomes resolved, closed or rejected, also one that nobody touches
\* after the breach, eventually has an Escalation row of level executive
\* (stated for a complaint found breached by the first scheduled sweep, which
\* leaves the schedule 75 more hours)
C33_EscalationLive ==
  \A c \in Complaints :
    (c \in Created /\ complaints[c].sla_breached /\ now = FirstInstant) ~>
      ( \/ c \in Created
           /\ complaints[c].status \in {"resolved", "closed", "rejected"}
        \/ \E i \in 1 .. Len(escalations[c]) :
             escalations[c][i].escalation_level = "executive" )

\* C34: the Gate auto-approves a complaint only if the confidence the
\* classifier returned is itself a number in [0, 1] at or above the
\* threshold: rounding it to 2 decimals, or replacing an invalid value by
\* 0.5, never turns a raw confidence below the threshold into an approval
C34_RawConfidenceDecides ==
  [][ \A c \in Created :
        (GateStep(c) /\ complaints'[c].is_auto_approved)
          => /\ gate[c].resp.conf_kind = "num"
             /\ gate[c].resp.confidence <= 1000
             /\ gate[c].resp.confidence >= 10 * ConfidenceThreshold ]_vars

\* C35: the Escalation rows of a complaint form a chain climbed one step at a
\* time: the first row is level_1 with previous_level null, and every later
\* row has previous_level equal to the level of the row before it and a level
\* that is the immediate successor of that level.
C35_EscalationChain ==
  \A c \in Complaints :
    \A i \in 1 .. Len(escalations[c]) :
      IF i = 1
        THEN /\ escalations[c][1].escalation_level = "level_1"
             /\ escalations[c][1].previous_level = NULL
        ELSE /\ escalations[c][i].previous_level = escalations[c][i - 1].escalation_level
             /\ LevelRank(escalations[c][i].escalation_level)
                  = LevelRank(escalations[c][i - 1].escalation_level) + 1

\* C36: in every reachable state, also after a store write failed during
\* breach handling, a complaint has sla_breached = true exactly when it has at
\* least one Escalation row.
C36_BreachedIffEscalationRow ==
  \A c \in Created :
    complaints[c].sla_breached <=> (Len(escalations[c]) >= 1)

\* C37: the counters of a sweep match its effects, also when a write of an
\* item fails: handling a candidate raises `breaches` by one exactly when the
\* complaint's sla_breached goes from false to true, `warnings` by one exactly
\* when its sla_breach_notified is set by a warning, and `escalations` by the
\* number of Escalation rows appended by a ladder advance, and leaves
\* `checked` at the number of candidates read.
C37_CountsMatchEffects ==
  [][ \A s \in Sweeps, c \in Created :
        ItemStep(s, c)
          => LET before == sweep[s].counts
                 after == CountsAfter(s)
                 breached == ~complaints[c].sla_breached /\ complaints'[c].sla_breached
                 warned == /\ ~complaints[c].sla_breach_notified
                           /\ complaints'[c].sla_breach_notified
                           /\ ~breached
                 advanced == {i \in Len(escalations[c]) + 1 .. Len(escalations'[c]) :
                                escalations'[c][i].previous_level # NULL}
             IN /\ after.checked = before.checked
                /\ after.breaches - before.breaches = (IF breached THEN 1 ELSE 0)
                /\ after.warnings - before.warnings = (IF warned THEN 1 ELSE 0)
                /\ after.escalations - before.escalations = Cardinality(advanced)
    ]_vars

\* C38: the StatusLog of a complaint is a consistent chain: in creation
\* order each row's old_status is the new_status of the row before it (the
\* first row's old_status being submitted), no row has a null old_status, and
\* the new_status of the last row is the stored status of the complaint.
C38_StatusLogChain ==
  \A c \in Created :
    /\ \A i \in 1 .. Len(statusLogs[c]) :
         /\ statusLogs[c][i].old_status # NULL
         /\ statusLogs[c][i].old_status =
              (IF i = 1 THEN "submitted" ELSE statusLogs[c][i - 1].new_status)
    /\ statusLogs[c] # << >>
         => statusLogs[c][Len(statusLogs[c])].new_status = complaints[c].status

\* C39: a sweep does not act on a complaint that an operation made resolved,
\* closed or rejected after the sweep read its candidates: handling that
\* candidate does not set its status to escalated, does not mark it breached
\* and appends no Escalation row for it.
C39_SweepSparesTerminal ==
  [][ \A s \in Sweeps, c \in Created :
        ( /\ ItemStep(s, c)
          /\ complaints[c].status \in {"resolved", "closed", "rejected"}
          /\ sweep[s].snap[c].status \notin {"resolved", "closed", "rejected"} )
          => /\ complaints'[c].status # "escalated"
             /\ complaints'[c].sla_breached = complaints[c].sla_breached
             /\ escalations'[c] = escalations[c]
    ]_vars

====
